---- MODULE Spec2Model ----
(***************************************************************************)
(* Image optimization: the CloudFront url-rewrite function (the request    *)
(* Normalizer) and the two image-processing Lambda handlers (the           *)
(* Transformation Engine with its cache write).                            *)
(*                                                                         *)
(* JavaScript strings are modelled as sequences of one-character strings,  *)
(* so that toLowerCase, split, join and concatenation are computed, not    *)
(* assumed.                                                                *)
(***************************************************************************)
EXTENDS Integers, Sequences, FiniteSets, TLC

VARIABLES
    \* ---- url-rewrite function (functions/url-rewrite/index.js) ----
    viewer,       \* the request as the viewer sent it (kept for reference)
    request,      \* event.request, mutated and returned by handler
    returned,     \* the requests handler has returned so far, in order
    \* ---- image-processing function ----
    impl,         \* which handler source is deployed: "v2" or "v3"
    transformedBucket, \* process.env.transformedImageBucketName is set
    event,        \* the request the Lambda URL delivers to the handler
    originalStore,     \* S3 bucket of originals: key -> object
    transformedStore,  \* S3 bucket of transformed images: key -> object
    inv,          \* per invocation: position and local variables
    phases,       \* per invocation: the phases started, in order
    console,      \* what sendError has written to the log
    \* ---- the format switch of the image-processing function alone ----
    formatSwitch  \* the locals format and contentType around switch (format)

vars == <<viewer, request, returned, impl, transformedBucket, event,
          originalStore, transformedStore, inv, phases, console, formatSwitch>>

normVars == <<viewer, request, returned>>
engineVars == <<impl, transformedBucket, event, originalStore,
                transformedStore, inv, phases, console>>

----------------------------------------------------------------------------
(* Bounds of the model *)

\* longest query string (number of distinct parameter names) a viewer sends
MaxParams == 2
\* how many times the url-rewrite function is applied to one request
MaxRewrites == 2
\* number of concurrent invocations of the image-processing handler
NumInvocations == 2

----------------------------------------------------------------------------
(* JavaScript strings *)

UpperChars == <<"A","B","C","D","E","F","G","H","I","J","K","L","M",
                "N","O","P","Q","R","S","T","U","V","W","X","Y","Z">>
LowerChars == <<"a","b","c","d","e","f","g","h","i","j","k","l","m",
                "n","o","p","q","r","s","t","u","v","w","x","y","z">>

\* String.prototype.toLowerCase on one character
ToLowerChar(c) ==
    IF \E i \in DOMAIN UpperChars : UpperChars[i] = c
    THEN LowerChars[CHOOSE i \in DOMAIN UpperChars : UpperChars[i] = c]
    ELSE c

\* String.prototype.toLowerCase
ToLowerCase(s) == [i \in DOMAIN s |-> ToLowerChar(s[i])]

\* String.prototype.split(sep) for a one-character separator: always at
\* least one piece, the empty string splits into <<"">>
RECURSIVE SplitFrom(_, _, _, _)
SplitFrom(s, sep, i, cur) ==
    IF i > Len(s) THEN <<cur>>
    ELSE IF s[i] = sep THEN <<cur>> \o SplitFrom(s, sep, i + 1, <<>>)
    ELSE SplitFrom(s, sep, i + 1, Append(cur, s[i]))

Split(s, sep) == SplitFrom(s, sep, 1, <<>>)

\* Array.prototype.join(sep): the empty array joins to the empty string
RECURSIVE Join(_, _)
Join(arr, sep) ==
    IF arr = <<>> THEN <<>>
    ELSE IF Len(arr) = 1 THEN arr[1]
    ELSE arr[1] \o <<sep>> \o Join(Tail(arr), sep)

\* string literals of the sources
s_preset == <<"p","r","e","s","e","t">>
s_preset_eq == <<"p","r","e","s","e","t","=">>
s_original == <<"o","r","i","g","i","n","a","l">>
s_icon == <<"i","c","o","n">>
s_thumb == <<"t","h","u","m","b">>
s_small == <<"s","m","a","l","l">>
s_medium == <<"m","e","d","i","u","m">>
s_large == <<"l","a","r","g","e">>
s_xlarge == <<"x","l","a","r","g","e">>
s_wide == <<"_","w","i","d","e">>
s_icon_wide == s_icon \o s_wide
s_thumb_wide == s_thumb \o s_wide
s_small_wide == s_small \o s_wide
s_medium_wide == s_medium \o s_wide
s_large_wide == s_large \o s_wide
s_xlarge_wide == s_xlarge \o s_wide
s_doordash == <<"d","o","o","r","d","a","s","h">>

----------------------------------------------------------------------------
(* url-rewrite function *)

\* var ALLOWED_PRESETS = [...] of the url-rewrite handler
NormalizerAllowedPresets ==
    <<s_thumb, s_small, s_medium, s_large, s_xlarge, s_small_wide,
      s_medium_wide, s_large_wide, s_xlarge_wide, s_doordash>>

\* Array.prototype.includes
Includes(arr, x) == \E i \in DOMAIN arr : arr[i] = x

\* NormalizeOperation storing the value as sent instead of lower-cased
NormalizeOperation_KeepsCase(ops, operation, value) ==
    IF ToLowerCase(operation) = s_preset
    THEN IF value # <<>> /\ Includes(NormalizerAllowedPresets, ToLowerCase(value))
         THEN [k \in DOMAIN ops \cup {"preset"} |->
                  IF k = "preset" THEN value ELSE ops[k]]
         ELSE ops
    ELSE ops

\* One turn of the forEach callback: `operation` is a key of
\* request.querystring, `value` is request.querystring[operation]['value'],
\* ops is normalizedOperations (a function from property names to values).
NormalizeOperation(ops, operation, value) ==
    IF ToLowerCase(operation) = s_preset
    THEN IF value # <<>> /\ Includes(NormalizerAllowedPresets, ToLowerCase(value))
         THEN [k \in DOMAIN ops \cup {"preset"} |->
                  IF k = "preset" THEN ToLowerCase(value) ELSE ops[k]]
         ELSE ops
    ELSE ops

\* ForEachOperation without the allow-list check on the value
RECURSIVE ForEachOperation_NoAllowList(_, _)
ForEachOperation_NoAllowList(params, ops) ==
    IF params = <<>> THEN ops
    ELSE ForEachOperation_NoAllowList(
             Tail(params),
             IF ToLowerCase(Head(params).name) = s_preset /\ Head(params).value # <<>>
             THEN [k \in DOMAIN ops \cup {"preset"} |->
                      IF k = "preset" THEN ToLowerCase(Head(params).value) ELSE ops[k]]
             ELSE ops)

\* Object.keys(request.querystring).forEach(...): params is the query string
\* in the enumeration order of Object.keys
RECURSIVE ForEachOperation(_, _)
ForEachOperation(params, ops) ==
    IF params = <<>> THEN ops
    ELSE ForEachOperation(Tail(params),
                          NormalizeOperation(ops, Head(params).name, Head(params).value))

EmptyObject == [k \in {} |-> <<>>]

\* RewrittenUri appending the descriptor without the "/" separator
RewrittenUri_NoSlash(originalImagePath, ops) ==
    IF Cardinality(DOMAIN ops) > 0
    THEN originalImagePath \o s_preset_eq \o ops["preset"]
    ELSE originalImagePath \o s_original

\* the rewritten uri once normalizedOperations is known
RewrittenUri(originalImagePath, ops) ==
    IF Cardinality(DOMAIN ops) > 0
    THEN LET normalizedOperationsArray ==
                 IF "preset" \in DOMAIN ops /\ ops["preset"] # <<>>
                 THEN <<s_preset_eq \o ops["preset"]>>
                 ELSE <<>>
         IN  originalImagePath \o <<"/">> \o Join(normalizedOperationsArray, ",")
    ELSE originalImagePath \o <<"/">> \o s_original

\* function handler(event): returns the mutated request
handler(req) ==
    LET originalImagePath == req.uri
        uri == IF req.querystring.present
               THEN RewrittenUri(originalImagePath,
                                 ForEachOperation(req.querystring.params, EmptyObject))
               ELSE originalImagePath \o <<"/">> \o s_original
    IN  [uri |-> uri, querystring |-> [present |-> TRUE, params |-> <<>>]]

----------------------------------------------------------------------------
(* The viewer requests the url-rewrite function is run on *)

s_PRESET == <<"P","R","E","S","E","T">>
s_width == <<"w","i","d","t","h">>
s_MEDIUM == <<"M","E","D","I","U","M">>
s_Thumb == <<"T","h","u","m","b">>

\* query parameter names a viewer may send
QueryNames == {s_preset, s_PRESET, s_width}

\* query parameter values a viewer may send: every allow-listed name, two
\* of them in another casing, a name only the engine knows, and the empty
\* value
QueryValues ==
    {NormalizerAllowedPresets[i] : i \in DOMAIN NormalizerAllowedPresets}
        \cup {s_MEDIUM, s_Thumb, s_icon, <<>>}

\* request uris a viewer may send
ViewerUris == {<<"/","a">>, <<"/","i","/","b",".","j","p","g">>}

QueryEntries == [name : QueryNames, value : QueryValues]

\* the keys of an object are distinct
DistinctNames(q) == \A i, j \in DOMAIN q : i # j => q[i].name # q[j].name

QueryStrings ==
    {q \in UNION {[1..n -> QueryEntries] : n \in 0..MaxParams} : DistinctNames(q)}

\* request.querystring is an object (possibly empty) or is missing
QueryStringObjects ==
    {[present |-> TRUE, params |-> q] : q \in QueryStrings}
        \cup {[present |-> FALSE, params |-> <<>>]}

\* CloudFront runs the function on a viewer request (and, when the bound
\* allows it, on a request that already went through the function)
UrlRewrite ==
    /\ Len(returned) < MaxRewrites
    /\ request' = handler(request)
    /\ returned' = Append(returned, handler(request))
    /\ UNCHANGED <<viewer, engineVars, formatSwitch>>

----------------------------------------------------------------------------
(* image-processing function: tables and pure steps *)

\* the value of a property an object does not have; no string equals it
Undefined == <<"undefined">>

Get(obj, key) == IF key \in DOMAIN obj THEN obj[key] ELSE Undefined

\* JavaScript truthiness of a string-or-undefined value
Truthy(v) == v # Undefined /\ v # <<>>

\* const ALLOWED_PRESETS = {...} of each image-processing handler
AllowedPresetsKeys(handlerImpl) ==
    IF handlerImpl = "v2"
    THEN {s_icon, s_thumb, s_small, s_medium, s_large, s_xlarge, s_icon_wide,
          s_thumb_wide, s_small_wide, s_medium_wide, s_large_wide,
          s_xlarge_wide, s_doordash}
    ELSE {s_thumb, s_small, s_medium, s_large, s_xlarge, s_small_wide,
          s_medium_wide, s_large_wide, s_xlarge_wide, s_doordash}

ALLOWED_PRESETS(handlerImpl) == [k \in AllowedPresetsKeys(handlerImpl) |-> k]

PresetCase(key, w, h, f, q) ==
    [key |-> key, width |-> w, height |-> h, format |-> f, quality |-> q]

\* PresetCases with the doordash case forgotten in both sources
PresetCases_NoDoordash(handlerImpl) ==
    << PresetCase(s_thumb, 50, 50, "jpeg", <<"2","0">>),
       PresetCase(s_large, 1024, 1024, "jpeg", <<"8","0">>),
       PresetCase(s_medium, 512, 512, "jpeg", <<"7","0">>),
       PresetCase(s_small, 256, 256, "jpeg", <<"5","0">>),
       PresetCase(s_xlarge, 2048, 2048, "jpeg", <<"9","0">>),
       PresetCase(s_large_wide, 1024, 576, "jpeg", <<"8","0">>),
       PresetCase(s_medium_wide, 512, 288, "jpeg", <<"7","0">>),
       PresetCase(s_small_wide, 256, 144, "jpeg", <<"5","0">>),
       PresetCase(s_xlarge_wide, 2048, 1152, "jpeg", <<"8","0">>) >>

\* the cases of switch (operationsJSON['preset']) in source order; each is
\* labelled ALLOWED_PRESETS.<key>
PresetCases(handlerImpl) ==
    IF handlerImpl = "v2"
    THEN << PresetCase(s_icon, 32, 32, "jpeg", <<"1","0">>),
            PresetCase(s_thumb, 50, 50, "jpeg", <<"2","0">>),
            PresetCase(s_large, 1024, 1024, "jpeg", <<"8","0">>),
            PresetCase(s_medium, 512, 512, "jpeg", <<"7","0">>),
            PresetCase(s_small, 256, 256, "jpeg", <<"5","0">>),
            PresetCase(s_xlarge, 2048, 2048, "jpeg", <<"9","0">>),
            PresetCase(s_icon_wide, 32, 18, "jpeg", <<"1","0">>),
            PresetCase(s_thumb_wide, 50, 28, "jpeg", <<"2","0">>),
            PresetCase(s_large_wide, 1024, 576, "jpeg", <<"8","0">>),
            PresetCase(s_medium_wide, 512, 288, "jpeg", <<"7","0">>),
            PresetCase(s_small_wide, 256, 144, "jpeg", <<"5","0">>),
            PresetCase(s_doordash, 1400, 788, "jpeg", <<"7","0">>),
            PresetCase(s_xlarge_wide, 2048, 1152, "jpeg", <<"8","0">>) >>
    ELSE << PresetCase(s_thumb, 50, 50, "jpeg", <<"2","0">>),
            PresetCase(s_large, 1024, 1024, "jpeg", <<"8","0">>),
            PresetCase(s_medium, 512, 512, "jpeg", <<"7","0">>),
            PresetCase(s_small, 256, 256, "jpeg", <<"5","0">>),
            PresetCase(s_xlarge, 2048, 2048, "jpeg", <<"9","0">>),
            PresetCase(s_large_wide, 1024, 576, "jpeg", <<"8","0">>),
            PresetCase(s_medium_wide, 512, 288, "jpeg", <<"7","0">>),
            PresetCase(s_small_wide, 256, 144, "jpeg", <<"5","0">>),
            PresetCase(s_doordash, 1400, 788, "jpeg", <<"7","0">>),
            PresetCase(s_xlarge_wide, 2048, 1152, "jpeg", <<"8","0">>) >>

\* the body of the default: branch (shared with case xlarge_wide)
DefaultCase == PresetCase(Undefined, 2048, 1152, "jpeg", <<"8","0">>)

\* the state the try block starts from: format, quality, resizingOptions
NoPreset ==
    [hit |-> FALSE, label |-> Undefined, resizingOptions |-> EmptyObject,
     format |-> "jpeg", quality |-> <<"8","0">>]

Resolved(c, hit) ==
    [hit |-> hit, label |-> c.key,
     resizingOptions |-> [k \in {"width", "height"} |->
                              IF k = "width" THEN c.width ELSE c.height],
     format |-> c.format, quality |-> c.quality]

\* if (operationsJSON['preset']) switch (operationsJSON['preset']) {...}:
\* the first case whose label is strictly equal to the value, else default
ResolvePreset(handlerImpl, preset) ==
    IF ~Truthy(preset) THEN NoPreset
    ELSE LET cases == PresetCases(handlerImpl)
             hits == {n \in DOMAIN cases :
                         Get(ALLOWED_PRESETS(handlerImpl), cases[n].key) = preset}
         IN  IF hits # {}
             THEN Resolved(cases[CHOOSE n \in hits : \A m \in hits : n <= m], TRUE)
             ELSE Resolved(DefaultCase, FALSE)

\* switch (format) {...}: the Content-Type of the output
ContentTypeOfFormat(format) ==
    CASE format = "jpeg" -> "image/jpeg"
      [] format = "jpg"  -> "image/jpg"
      [] format = "gif"  -> "image/gif"
      [] format = "webp" -> "image/webp"
      [] format = "png"  -> "image/png"
      [] format = "avif" -> "image/avif"
      [] OTHER           -> "image/jpeg"

Digits == <<"0","1","2","3","4","5","6","7","8","9">>

DigitValue(c) == (CHOOSE d \in DOMAIN Digits : Digits[d] = c) - 1

\* parseInt on a string of decimal digits
RECURSIVE ParseInt(_)
ParseInt(s) ==
    IF s = <<>> THEN 0
    ELSE ParseInt(SubSeq(s, 1, Len(s) - 1)) * 10 + DigitValue(s[Len(s)])

\* Object.fromEntries(entries): entries are arrays, element 0 the key and
\* element 1 the value (undefined when the array has one element); a later
\* entry replaces an earlier one with the same key
RECURSIVE FromEntries(_)
FromEntries(entries) ==
    IF entries = <<>> THEN EmptyObject
    ELSE LET last == entries[Len(entries)]
             value == IF Len(last) >= 2 THEN last[2] ELSE Undefined
         IN  (last[1] :> value) @@ FromEntries(SubSeq(entries, 1, Len(entries) - 1))

\* Object.fromEntries(operationsPrefix.split(',').map(o => o.split('=')))
ParseOperations(operationsPrefix) ==
    LET ops == Split(operationsPrefix, ",")
    IN  FromEntries([n \in DOMAIN ops |-> Split(ops[n], "=")])

\* SplitPath without imagePathArray.shift(): the empty first piece stays
SplitPath_NoShift(path) ==
    LET imagePathArray == Split(path, "/")
    IN  [operationsPrefix |-> imagePathArray[Len(imagePathArray)],
         originalImagePath |->
             Join(SubSeq(imagePathArray, 1, Len(imagePathArray) - 1), "/")]

\* event.requestContext.http.path.split('/'), pop(), shift(), join('/')
SplitPath(path) ==
    LET imagePathArray == Split(path, "/")
        popped == SubSeq(imagePathArray, 1, Len(imagePathArray) - 1)
        shifted == IF popped = <<>> THEN <<>> ELSE Tail(popped)
    IN  [operationsPrefix |-> imagePathArray[Len(imagePathArray)],
         originalImagePath |-> Join(shifted, "/")]

\* the bytes Sharp's resize/toFormat/toBuffer pipeline produces: a function
\* of the source bytes and the resolved options only
Encode(body, resizingOptions, format, quality) ==
    [src |-> body, resize |-> resizingOptions, format |-> format,
     quality |-> ParseInt(quality)]

\* Buffer.prototype.toString('base64')
ToBase64(buffer) == [base64 |-> buffer]

\* process.env.transformedImageCacheTTL
TRANSFORMED_IMAGE_CACHE_TTL == "max-age=31622400"

\* function sendError(statusCode, body, error): what it returns
sendError(handlerImpl, statusCode, body) ==
    IF handlerImpl = "v2"
    THEN [statusCode |-> 200, body |-> body]
    ELSE [statusCode |-> statusCode, body |-> body]

\* the object the handler returns after the transform
SuccessResponse(transformedImage, contentType) ==
    [statusCode |-> 200,
     body |-> ToBase64(transformedImage),
     isBase64Encoded |-> TRUE,
     headers |-> [ContentType |-> contentType,
                  CacheControl |-> TRANSFORMED_IMAGE_CACHE_TTL]]

----------------------------------------------------------------------------
(* image-processing function: the environment of one deployment *)

Invocations == 1..NumInvocations

\* The bucket of originals. Bodies: two images Sharp can decode and encode,
\* bytes that are no image at all (metadata() rejects), and an image whose
\* header is readable but whose pixel data is cut short (toBuffer() rejects).
OriginalObjects ==
    (<<"a">> :> [Body |-> "imageA", ContentType |-> "image/png"])
    @@ (<<"i","/","b",".","j","p","g">> :>
            [Body |-> "imageB", ContentType |-> "image/jpeg"])
    @@ (<<"c">> :> [Body |-> "garbage", ContentType |-> "text/plain"])
    @@ (<<"t">> :> [Body |-> "truncated", ContentType |-> "image/jpeg"])

\* Sharp(...).metadata() resolves
HeaderReadable(body) == body # "garbage"

\* Sharp(...).resize(...).toFormat(...).toBuffer() resolves
PixelsReadable(body) == body \in {"imageA", "imageB"}

QueryOf(name, value) ==
    [present |-> TRUE, params |-> <<[name |-> name, value |-> value]>>]

\* paths the url-rewrite function produces for the two viewer uris
RewrittenPaths ==
    {handler([uri |-> <<"/","a">>, querystring |-> QueryOf(s_preset, v)]).uri :
         v \in QueryValues}
    \cup {handler([uri |-> <<"/","i","/","b",".","j","p","g">>,
                   querystring |-> QueryOf(s_PRESET, s_MEDIUM)]).uri}

\* paths sent to the function URL without passing the url-rewrite function,
\* and rewritten paths of originals that are missing or broken
DirectPaths ==
    { <<"/","a","/">> \o s_preset_eq \o s_icon,
      <<"/","a","/">> \o s_preset_eq \o <<"b","o","g","u","s">>,
      <<"/","a","/">> \o s_width \o <<"=","1">>,
      <<"/","c","/">> \o s_original,
      <<"/","t","/">> \o s_preset_eq \o s_small,
      <<"/","m","/">> \o s_preset_eq \o s_doordash }

EventPaths == RewrittenPaths \cup DirectPaths

\* event.headers['x-origin-secret-header'] === SECRET_KEY, and
\* event.requestContext.http.method
Events ==
    {[path |-> p, secretOk |-> TRUE, method |-> "GET"] : p \in EventPaths}
    \cup {[path |-> <<"/","a","/">> \o s_original, secretOk |-> a, method |-> m] :
             a \in BOOLEAN, m \in {"GET", "POST"}}

NoObject == [Body |-> "none", ContentType |-> "none"]
NoImage == [src |-> "none", resize |-> EmptyObject, format |-> "none", quality |-> 0]
NoResponse == [statusCode |-> 0, body |-> "none"]

IdleInvocation ==
    [pc |-> "idle",
     operationsPrefix |-> <<>>,
     originalImagePath |-> <<>>,
     originalImage |-> NoObject,
     contentType |-> "undefined",
     preset |-> NoPreset,
     transformedImage |-> NoImage,
     response |-> NoResponse]

----------------------------------------------------------------------------
(* image-processing function: exports.handler, one action per stretch of   *)
(* code between two awaits                                                 *)

Log(i, body) == console' = console \cup {<<i, body>>}

Return(i, response) ==
    inv' = [inv EXCEPT ![i].pc = "returned", ![i].response = response]

\* Entry of the handler up to the first await. The v3 source first checks
\* the origin secret header and the method; both sources then split the path
\* and call getObject.
Start(i) ==
    /\ inv[i].pc = "idle"
    /\ IF impl = "v3" /\ ~event.secretOk
       THEN /\ Return(i, sendError(impl, 403, "Request unauthorized"))
            /\ Log(i, "Request unauthorized")
            /\ UNCHANGED phases
       ELSE IF impl = "v3" /\ event.method # "GET"
       THEN /\ Return(i, sendError(impl, 400, "Only GET method is supported"))
            /\ Log(i, "Only GET method is supported")
            /\ UNCHANGED phases
       ELSE /\ inv' = [inv EXCEPT
                 ![i].pc = "getObject",
                 ![i].operationsPrefix = SplitPath(event.path).operationsPrefix,
                 ![i].originalImagePath = SplitPath(event.path).originalImagePath]
            /\ phases' = [phases EXCEPT ![i] = Append(@, "fetch")]
            /\ UNCHANGED console
    /\ UNCHANGED <<normVars, formatSwitch, impl, transformedBucket, event, originalStore,
                   transformedStore>>

\* await getObject(...).promise() resolves: the object is kept, the image is
\* constructed and metadata() is called
GetObjectResolves(i) ==
    /\ inv[i].pc = "getObject"
    /\ inv[i].originalImagePath \in DOMAIN originalStore
    /\ inv' = [inv EXCEPT
          ![i].pc = "metadata",
          ![i].originalImage = originalStore[inv[i].originalImagePath],
          ![i].contentType = originalStore[inv[i].originalImagePath].ContentType]
    /\ phases' = [phases EXCEPT ![i] = Append(@, "transform")]
    /\ UNCHANGED <<normVars, formatSwitch, impl, transformedBucket, event, originalStore,
                   transformedStore, console>>

\* getObject fails (no such key, access denied, store unavailable, or the
\* call itself throws, as getObject(...).promise() does in the v3 source when
\* the client's getObject returns a plain promise): catch, return
\* sendError(500, ...)
GetObjectRejects(i) ==
    /\ inv[i].pc = "getObject"
    /\ Return(i, sendError(impl, 500, "error downloading original image"))
    /\ Log(i, "error downloading original image")
    /\ UNCHANGED <<normVars, formatSwitch, impl, transformedBucket, event, originalStore,
                   transformedStore, phases>>

\* await transformedImage.metadata() resolves: the descriptor is parsed, the
\* try block resolves the preset, resizes, maps the format to a content type
\* and calls toBuffer()
MetadataResolves(i) ==
    /\ inv[i].pc = "metadata"
    /\ HeaderReadable(inv[i].originalImage.Body)
    /\ LET operationsJSON == ParseOperations(inv[i].operationsPrefix)
           preset == ResolvePreset(impl, Get(operationsJSON, s_preset))
       IN  inv' = [inv EXCEPT
               ![i].pc = "toBuffer",
               ![i].preset = preset,
               ![i].contentType = ContentTypeOfFormat(preset.format)]
    /\ UNCHANGED <<normVars, formatSwitch, impl, transformedBucket, event, originalStore,
                   transformedStore, phases, console>>

\* await transformedImage.metadata() rejects. The call is outside every try
\* block, so the promise returned by the handler rejects.
MetadataRejects(i) ==
    /\ inv[i].pc = "metadata"
    /\ ~HeaderReadable(inv[i].originalImage.Body)
    /\ inv' = [inv EXCEPT ![i].pc = "rejected"]
    /\ UNCHANGED <<normVars, formatSwitch, impl, transformedBucket, event, originalStore,
                   transformedStore, phases, console>>

\* await transformedImage.toBuffer() resolves; with a bucket for transformed
\* images putObject is called, otherwise the response is returned
ToBufferResolves(i) ==
    /\ inv[i].pc = "toBuffer"
    /\ PixelsReadable(inv[i].originalImage.Body)
    /\ LET transformedImage ==
               Encode(inv[i].originalImage.Body, inv[i].preset.resizingOptions,
                      inv[i].preset.format, inv[i].preset.quality)
       IN  IF transformedBucket
           THEN /\ inv' = [inv EXCEPT ![i].pc = "putObject",
                                      ![i].transformedImage = transformedImage]
                /\ phases' = [phases EXCEPT ![i] = Append(@, "put")]
           ELSE /\ inv' = [inv EXCEPT
                      ![i].pc = "returned",
                      ![i].transformedImage = transformedImage,
                      ![i].response =
                          SuccessResponse(transformedImage, inv[i].contentType)]
                /\ UNCHANGED phases
    /\ UNCHANGED <<normVars, formatSwitch, impl, transformedBucket, event, originalStore,
                   transformedStore, console>>

\* ToBufferRejects with the return in the catch block missing: the error is
\* logged and the handler goes on to the cache write
ToBufferRejects_FallsThrough(i) ==
    /\ inv[i].pc = "toBuffer"
    /\ ~PixelsReadable(inv[i].originalImage.Body)
    /\ Log(i, "error transforming image")
    /\ inv' = [inv EXCEPT ![i].pc = "putObject"]
    /\ phases' = [phases EXCEPT ![i] = Append(@, "put")]
    /\ UNCHANGED <<normVars, formatSwitch, impl, transformedBucket, event, originalStore,
                   transformedStore>>

\* toBuffer() rejects inside the try block: return sendError(500, ...)
ToBufferRejects(i) ==
    /\ inv[i].pc = "toBuffer"
    /\ ~PixelsReadable(inv[i].originalImage.Body)
    /\ Return(i, sendError(impl, 500, "error transforming image"))
    /\ Log(i, "error transforming image")
    /\ UNCHANGED <<normVars, formatSwitch, impl, transformedBucket, event, originalStore,
                   transformedStore, phases>>

\* PutRequest with a key that differs from one invocation to the next
PutRequest_KeyPerInvocation(i) ==
    [Key |-> inv[i].originalImagePath \o <<"/">> \o inv[i].operationsPrefix
                 \o <<".", Digits[i + 1]>>,
     Body |-> inv[i].transformedImage,
     ContentType |-> inv[i].contentType,
     Metadata |-> TRANSFORMED_IMAGE_CACHE_TTL]

\* the object putObject is called with
PutRequest(i) ==
    [Key |-> inv[i].originalImagePath \o <<"/">> \o inv[i].operationsPrefix,
     Body |-> inv[i].transformedImage,
     ContentType |-> inv[i].contentType,
     Metadata |-> TRANSFORMED_IMAGE_CACHE_TTL]

\* await putObject(...) resolves: the object is stored, the response returned
PutObjectResolves(i) ==
    /\ inv[i].pc = "putObject"
    /\ transformedStore' =
           (PutRequest(i).Key :> [Body |-> PutRequest(i).Body,
                                  ContentType |-> PutRequest(i).ContentType,
                                  Metadata |-> PutRequest(i).Metadata])
           @@ transformedStore
    /\ Return(i, SuccessResponse(inv[i].transformedImage, inv[i].contentType))
    /\ UNCHANGED <<normVars, formatSwitch, impl, transformedBucket, event, originalStore,
                   phases, console>>

\* PutObjectRejects returning what sendError returns
PutObjectRejects_ReturnsError(i) ==
    /\ inv[i].pc = "putObject"
    /\ Log(i, "Could not upload transformed image to S3")
    /\ Return(i, sendError(impl, 500, "Could not upload transformed image to S3"))
    /\ UNCHANGED <<normVars, formatSwitch, impl, transformedBucket, event, originalStore,
                   transformedStore, phases>>

\* putObject fails: catch, sendError logs and its result is dropped, the
\* response is returned
PutObjectRejects(i) ==
    /\ inv[i].pc = "putObject"
    /\ Log(i, "Could not upload transformed image to S3")
    /\ Return(i, SuccessResponse(inv[i].transformedImage, inv[i].contentType))
    /\ UNCHANGED <<normVars, formatSwitch, impl, transformedBucket, event, originalStore,
                   transformedStore, phases>>

----------------------------------------------------------------------------
(* Specifications *)

\* the format switch is not being exercised on its own
FormatSwitchIdle ==
    formatSwitch = [format |-> "jpeg", declared |-> "undefined",
                    contentType |-> "undefined", done |-> FALSE]

NormalizerIdle ==
    /\ viewer = [uri |-> <<>>, querystring |-> [present |-> FALSE, params |-> <<>>]]
    /\ request = viewer
    /\ returned = <<>>

EngineIdle ==
    /\ impl = "v2"
    /\ transformedBucket = FALSE
    /\ event = [path |-> <<>>, secretOk |-> FALSE, method |-> "GET"]
    /\ originalStore = OriginalObjects
    /\ transformedStore = EmptyObject
    /\ inv = [i \in Invocations |-> IdleInvocation]
    /\ phases = [i \in Invocations |-> <<>>]
    /\ console = {}

\* the url-rewrite function on every viewer request of the bounded set
InitNormalizer ==
    /\ \E u \in ViewerUris, q \in QueryStringObjects :
           viewer = [uri |-> u, querystring |-> q]
    /\ request = viewer
    /\ returned = <<>>
    /\ EngineIdle
    /\ FormatSwitchIdle

NextNormalizer == UrlRewrite

SpecNormalizer == InitNormalizer /\ [][NextNormalizer]_vars

\* either handler source, with or without a bucket for transformed images,
\* invoked NumInvocations times concurrently for one request
Init ==
    /\ NormalizerIdle
    /\ FormatSwitchIdle
    /\ impl \in {"v2", "v3"}
    /\ transformedBucket \in BOOLEAN
    /\ event \in Events
    /\ originalStore = OriginalObjects
    /\ transformedStore = EmptyObject
    /\ inv = [i \in Invocations |-> IdleInvocation]
    /\ phases = [i \in Invocations |-> <<>>]
    /\ console = {}

Next ==
    \E i \in Invocations :
        \/ Start(i)
        \/ GetObjectResolves(i)
        \/ GetObjectRejects(i)
        \/ MetadataResolves(i)
        \/ MetadataRejects(i)
        \/ ToBufferResolves(i)
        \/ ToBufferRejects(i)
        \/ PutObjectResolves(i)
        \/ PutObjectRejects(i)

Spec == Init /\ [][Next]_vars

----------------------------------------------------------------------------
(* Properties of the url-rewrite function (SpecNormalizer) *)

AllowedPresetNames ==
    {NormalizerAllowedPresets[n] : n \in DOMAIN NormalizerAllowedPresets}

\* the request the k-th application of the function was run on
InputOf(k) == IF k = 1 THEN viewer ELSE returned[k - 1]

\* a query parameter named preset (in any casing) with an allow-listed value
\* (in any casing)
IsAcceptedPreset(e) ==
    /\ ToLowerCase(e.name) = s_preset
    /\ ToLowerCase(e.value) \in AllowedPresetNames

AcceptedPositions(q) == {n \in DOMAIN q : IsAcceptedPreset(q[n])}

PresetUri(uri, value) == uri \o <<"/">> \o s_preset_eq \o ToLowerCase(value)

\* C1 as stated: whenever a parameter named preset (any casing) carries an
\* allow-listed name P (any casing), whatever other parameters accompany it,
\* the returned uri is the input uri followed by "/preset=" and lower-case P.
C1_EveryAcceptedPresetIsTheDescriptor ==
    \A k \in DOMAIN returned :
        \A n \in DOMAIN InputOf(k).querystring.params :
            IsAcceptedPreset(InputOf(k).querystring.params[n])
                => returned[k].uri =
                       PresetUri(InputOf(k).uri, InputOf(k).querystring.params[n].value)

\* C1 amended: the returned uri is the input uri followed by "/preset=" and
\* the lower-cased value of the LAST parameter, in the enumeration order of
\* the query-string mapping, that is named preset (any casing) and carries an
\* allow-listed name; with a single such parameter that is P.
C1_LastAcceptedPresetIsTheDescriptor ==
    \A k \in DOMAIN returned :
        LET q == InputOf(k).querystring.params
            acc == AcceptedPositions(q)
        IN  acc # {} =>
                returned[k].uri =
                    PresetUri(InputOf(k).uri,
                              q[CHOOSE n \in acc : \A m \in acc : m <= n].value)

\* a request with another parameter first and PRESET=MEDIUM second has been
\* rewritten to /preset=medium
C1_Witness ==
    /\ returned # <<>>
    /\ Len(viewer.querystring.params) = 2
    /\ viewer.querystring.params[1].name = s_width
    /\ viewer.querystring.params[2] = [name |-> s_PRESET, value |-> s_MEDIUM]
    /\ returned[1].uri = viewer.uri \o <<"/">> \o s_preset_eq \o s_medium

\* the orderings of the entries of a query-string mapping
Reorderings(q) ==
    {[n \in DOMAIN q |-> q[f[n]]] :
        f \in {g \in [DOMAIN q -> DOMAIN q] :
                  \A a, b \in DOMAIN q : a # b => g[a] # g[b]}}

\* C2: a request with the same uri and the same name/value entries in any
\* other enumeration order is rewritten to the same uri.
C2_OrderIndependent ==
    returned # <<>> =>
        \A q \in Reorderings(viewer.querystring.params) :
            handler([viewer EXCEPT !.querystring.params = q]).uri = returned[1].uri

\* C3: when no parameter is accepted (no query string, an empty one, no
\* parameter named preset, or only empty or non-allow-listed preset values)
\* the returned uri is the input uri followed by "/original".
C3_FallbackOriginal ==
    \A k \in DOMAIN returned :
        AcceptedPositions(InputOf(k).querystring.params) = {}
            => returned[k].uri = InputOf(k).uri \o <<"/">> \o s_original

\* a request carrying preset=icon (not allow-listed) and width=small (wrong
\* name) has been rewritten to /original
C3_Witness ==
    /\ returned # <<>>
    /\ viewer.querystring.params =
           <<[name |-> s_preset, value |-> s_icon],
             [name |-> s_width, value |-> s_small]>>
    /\ returned[1].uri = viewer.uri \o <<"/">> \o s_original

CanonicalDescriptors ==
    {s_original} \cup {s_preset_eq \o a : a \in AllowedPresetNames}

LastSegment(uri) == Split(uri, "/")[Len(Split(uri, "/"))]

\* C4: the function returns for every request (it is defined on the request
\* at hand, whatever it is); the returned query string is
\* empty; the returned uri is the input uri plus one path segment, which is
\* `original` or `preset=` and a lower-case allow-listed name, so nothing
\* else of the query string reaches the uri.
C4_CanonicalOutput ==
    /\ handler(request).querystring = [present |-> TRUE, params |-> <<>>]
    /\ \A k \in DOMAIN returned :
           /\ returned[k].querystring = [present |-> TRUE, params |-> <<>>]
           /\ LastSegment(returned[k].uri) \in CanonicalDescriptors
           /\ returned[k].uri =
                  InputOf(k).uri \o <<"/">> \o LastSegment(returned[k].uri)

\* a request carrying PRESET=Thumb and width=icon has been rewritten: its
\* last segment is preset=thumb and its query string is empty
C4_Witness ==
    /\ returned # <<>>
    /\ viewer.querystring.params =
           <<[name |-> s_PRESET, value |-> s_Thumb],
             [name |-> s_width, value |-> s_icon]>>
    /\ LastSegment(returned[1].uri) = s_preset_eq \o s_thumb
    /\ request.querystring.params = <<>>

\* C5: applying the function to its own output leaves the uri unchanged.
C5_Idempotent ==
    Len(returned) >= 2 => returned[2].uri = returned[1].uri

----------------------------------------------------------------------------
(* Properties of the image-processing function (Spec) *)

\* what the log shows about invocation i
FetchFailed(i) == <<i, "error downloading original image">> \in console
TransformErrorLogged(i) == <<i, "error transforming image">> \in console
PutFailed(i) == <<i, "Could not upload transformed image to S3">> \in console

\* the transform phase of invocation i failed: it was caught and logged, or
\* it ended the invocation with a rejected promise
TransformFailed(i) == TransformErrorLogged(i) \/ inv[i].pc = "rejected"

\* invocation i is past the preset switch
PresetResolved(i) ==
    \/ inv[i].pc \in {"toBuffer", "putObject"}
    \/ inv[i].pc = "returned" /\ Len(phases[i]) >= 2

\* a response of the shape sendError returns / of the shape of a success
IsErrorShape(r) == DOMAIN r = {"statusCode", "body"}
IsSuccessShape(r) == DOMAIN r = {"statusCode", "body", "isBase64Encoded", "headers"}

\* C6: every name of the url-rewrite allow-list is a key of the engine's
\* ALLOWED_PRESETS and the label of a case of the preset switch in the
\* deployed handler, and an invocation for a path carrying such a name takes
\* that name's case: concrete width, height, format and quality, never the
\* miss branch.
C6_PresetTableComplete ==
    /\ \A a \in AllowedPresetNames :
           /\ a \in DOMAIN ALLOWED_PRESETS(impl)
           /\ \E n \in DOMAIN PresetCases(impl) : PresetCases(impl)[n].key = a
    /\ \A i \in Invocations :
           \A a \in AllowedPresetNames :
               (PresetResolved(i) /\ inv[i].operationsPrefix = s_preset_eq \o a)
                   => /\ inv[i].preset.hit
                      /\ inv[i].preset.label = a
                      /\ inv[i].preset.resizingOptions["width"] > 0
                      /\ inv[i].preset.resizingOptions["height"] > 0
                      /\ inv[i].preset.format = "jpeg"
                      /\ ParseInt(inv[i].preset.quality) \in 1..100

\* an invocation for .../preset=xlarge_wide (the case that shares its body
\* with default) is past the switch on a hit
C6_Witness ==
    \E i \in Invocations :
        /\ inv[i].pc = "toBuffer"
        /\ event.path \in RewrittenPaths
        /\ inv[i].operationsPrefix = s_preset_eq \o s_xlarge_wide
        /\ inv[i].preset.hit
        /\ inv[i].preset.resizingOptions["height"] = 1152

\* C7: the phases of one invocation start in the order fetch, transform,
\* cache write; after a failed fetch neither transform nor putObject is
\* started; after a failed transform putObject is not called; hence every
\* object in the bucket of transformed images is the output of a successful
\* transform.
C7_PhaseOrderAndCancellation ==
    /\ \A i \in Invocations :
           /\ phases[i] \in {<<>>, <<"fetch">>, <<"fetch", "transform">>,
                             <<"fetch", "transform", "put">>}
           /\ FetchFailed(i) => phases[i] = <<"fetch">>
           /\ TransformFailed(i) => phases[i] = <<"fetch", "transform">>
    /\ \A k \in DOMAIN transformedStore :
           \E i \in Invocations :
               /\ phases[i] = <<"fetch", "transform", "put">>
               /\ ~TransformFailed(i)
               /\ PixelsReadable(inv[i].originalImage.Body)
               /\ transformedStore[k].Body.src = inv[i].originalImage.Body
               /\ transformedStore[k].Body = inv[i].transformedImage

\* with a bucket configured, one invocation's transform has failed and it
\* has returned without a cache write
C7_Witness ==
    /\ transformedBucket
    /\ \E i \in Invocations :
           /\ TransformErrorLogged(i)
           /\ inv[i].pc = "returned"
           /\ phases[i] = <<"fetch", "transform">>
    /\ transformedStore = EmptyObject

\* invocation i returned after a cache write that succeeded
PutSucceeded(i) ==
    inv[i].pc = "returned" /\ Len(phases[i]) = 3 /\ ~PutFailed(i)

\* C8: a failed putObject leaves the invocation returning status 200 with the
\* transformed bytes and the resolved Content-Type, the same response as an
\* invocation whose write succeeded; without a bucket putObject is not
\* called.
C8_CacheWriteBestEffort ==
    /\ \A i \in Invocations :
           PutFailed(i) =>
               /\ inv[i].pc = "returned"
               /\ IsSuccessShape(inv[i].response)
               /\ inv[i].response.statusCode = 200
               /\ inv[i].response.body = [base64 |-> inv[i].transformedImage]
               /\ inv[i].transformedImage.src = inv[i].originalImage.Body
               /\ PixelsReadable(inv[i].originalImage.Body)
               /\ inv[i].response.headers.ContentType = inv[i].contentType
               /\ \A j \in Invocations :
                      PutSucceeded(j) => inv[j].response = inv[i].response
    /\ ~transformedBucket =>
           /\ transformedStore = EmptyObject
           /\ \A i \in Invocations : Len(phases[i]) < 3

\* one invocation's cache write failed, another's succeeded, both returned
C8_Witness ==
    \E i, j \in Invocations :
        /\ PutFailed(i)
        /\ PutSucceeded(j)
        /\ inv[i].pc = "returned"
        /\ inv[i].response.statusCode = 200
        /\ inv[i].response = inv[j].response

\* C9: no failure of decoding, descriptor parsing, resizing or encoding makes
\* the promise returned by the handler reject; each ends in the 'error
\* transforming image' result.
C9_TransformExceptionsContained ==
    \A i \in Invocations :
        /\ inv[i].pc # "rejected"
        /\ (inv[i].pc = "returned" /\ Len(phases[i]) = 2
                => /\ IsErrorShape(inv[i].response)
                   /\ inv[i].response.body = "error transforming image")

\* C10: after a failed fetch or a failed transform the response carries
\* status 500 and no transformed bytes; a response with status 200 carries
\* the base64 of successfully transformed bytes.
C10_FailureDistinguishable ==
    \A i \in Invocations :
        inv[i].pc = "returned" =>
            /\ (FetchFailed(i) \/ TransformFailed(i))
                   => /\ inv[i].response.statusCode = 500
                      /\ IsErrorShape(inv[i].response)
            /\ inv[i].response.statusCode = 200
                   => /\ IsSuccessShape(inv[i].response)
                      /\ inv[i].response.body = ToBase64(inv[i].transformedImage)
                      /\ PixelsReadable(inv[i].transformedImage.src)

----------------------------------------------------------------------------
(* The format switch on every format string (SpecFormatSwitch) *)

\* values of the local `format` the switch is run on: the six case labels
\* and strings that match none of them
FormatStrings ==
    {"jpeg", "jpg", "gif", "webp", "png", "avif",
     "tiff", "heif", "JPEG", "PNG", "auto", ""}

\* values of originalImage.ContentType, which contentType holds before the
\* switch
DeclaredContentTypes ==
    {"image/png", "image/jpeg", "image/gif", "text/plain", "undefined"}

InitFormatSwitch ==
    /\ NormalizerIdle
    /\ EngineIdle
    /\ \E f \in FormatStrings, c \in DeclaredContentTypes :
           formatSwitch = [format |-> f, declared |-> c,
                           contentType |-> c, done |-> FALSE]

\* switch (format) { ... }: contentType is overwritten by the mapped value
FormatSwitch ==
    /\ ~formatSwitch.done
    /\ formatSwitch' = [formatSwitch EXCEPT
                            !.contentType = ContentTypeOfFormat(formatSwitch.format),
                            !.done = TRUE]
    /\ UNCHANGED <<normVars, engineVars>>

NextFormatSwitch == FormatSwitch

SpecFormatSwitch == InitFormatSwitch /\ [][NextFormatSwitch]_vars

\* the fixed format -> MIME table
MimeOfFormat(f) ==
    CASE f \in {"jpeg", "jpg"} -> "image/jpeg"
      [] f = "gif"  -> "image/gif"
      [] f = "webp" -> "image/webp"
      [] f = "png"  -> "image/png"
      [] f = "avif" -> "image/avif"
      [] OTHER      -> "image/jpeg"

----------------------------------------------------------------------------
(* Further properties of the image-processing function (Spec) *)

\* the value of the descriptor's preset key as the engine parses it
DescriptorPreset(i) == Get(ParseOperations(inv[i].operationsPrefix), s_preset)

\* the names the deployed handler's preset table knows
RecognizedPresets == {ALLOWED_PRESETS(impl)[k] : k \in DOMAIN ALLOWED_PRESETS(impl)}

\* C11: resize width/height are set only when the descriptor's preset value
\* is a recognized preset name; for `original`, for a descriptor without a
\* preset key and for an unrecognized preset value, no resize dimensions are
\* set and format jpeg with quality 80 is used.
C11_UnknownPresetNoResize ==
    \A i \in Invocations :
        (PresetResolved(i) /\ DescriptorPreset(i) \notin RecognizedPresets)
            => /\ inv[i].preset.resizingOptions = EmptyObject
               /\ inv[i].preset.format = "jpeg"
               /\ ParseInt(inv[i].preset.quality) = 80

----------------------------------------------------------------------------
(* The url-rewrite function in front of the image-processing function      *)
(* (SpecPipeline): the distribution runs the function on the viewer        *)
(* request and, on a miss in the bucket of transformed images, forwards    *)
(* the rewritten request to the function URL with the origin secret header *)

\* viewer uris of the form "/" + originalPath, among them an empty path, a
\* path ending in "/" and a path with several segments
PipelineUris ==
    { <<"/","a">>, <<"/","i","/","b",".","j","p","g">>, <<"/","a","/">>,
      <<"/">>, <<"/","t">>, <<"/","c">> }

PipelineQueries ==
    { [present |-> FALSE, params |-> <<>>],
      QueryOf(s_PRESET, s_MEDIUM),
      QueryOf(s_preset, s_icon),
      [present |-> TRUE,
       params |-> <<[name |-> s_width, value |-> s_small],
                    [name |-> s_preset, value |-> s_doordash]>>] }

NotDelivered == event.path = <<>>

InitPipeline ==
    /\ \E u \in PipelineUris, q \in PipelineQueries :
           viewer = [uri |-> u, querystring |-> q]
    /\ request = viewer
    /\ returned = <<>>
    /\ impl \in {"v2", "v3"}
    /\ transformedBucket \in BOOLEAN
    /\ event = [path |-> <<>>, secretOk |-> FALSE, method |-> "GET"]
    /\ originalStore = OriginalObjects
    /\ transformedStore = EmptyObject
    /\ inv = [i \in Invocations |-> IdleInvocation]
    /\ phases = [i \in Invocations |-> <<>>]
    /\ console = {}
    /\ FormatSwitchIdle

\* the fallback origin of the distribution: the rewritten request reaches
\* the function URL as a GET carrying x-origin-secret-header
Deliver ==
    /\ NotDelivered
    /\ returned # <<>>
    /\ event' = [path |-> request.uri, secretOk |-> TRUE, method |-> "GET"]
    /\ UNCHANGED <<normVars, formatSwitch, impl, transformedBucket,
                   originalStore, transformedStore, inv, phases, console>>

NextPipeline ==
    \/ NotDelivered /\ UrlRewrite
    \/ Deliver
    \/ ~NotDelivered /\ Next

SpecPipeline == InitPipeline /\ [][NextPipeline]_vars

\* the applications of the url-rewrite function whose result was delivered
DeliveredRewrites == {k \in DOMAIN returned : returned[k].uri = event.path}

\* C13: when the rewritten uri of a viewer uri "/" + originalPath is fed to
\* the image-processing handler, the handler fetches the source object at
\* key originalPath exactly and writes the transformed object at key
\* originalPath + "/" + descriptor, the rewritten uri without its leading
\* slash.
C13_CacheKeyRoundTrip ==
    ~NotDelivered =>
        /\ DeliveredRewrites # {}
        /\ \A k \in DeliveredRewrites :
               LET originalPath == Tail(InputOf(k).uri)
                   descriptor == LastSegment(returned[k].uri)
                   cacheKey == Tail(returned[k].uri)
               IN  /\ Head(InputOf(k).uri) = "/"
                   /\ cacheKey = originalPath \o <<"/">> \o descriptor
                   /\ \A i \in Invocations :
                          /\ inv[i].pc # "idle"
                                 => /\ inv[i].originalImagePath = originalPath
                                    /\ inv[i].operationsPrefix = descriptor
                          /\ Len(phases[i]) >= 2
                                 => /\ originalPath \in DOMAIN originalStore
                                    /\ inv[i].originalImage = originalStore[originalPath]
                          /\ inv[i].pc = "putObject"
                                 => PutRequest(i).Key = cacheKey
                   /\ DOMAIN transformedStore \subseteq {cacheKey}

\* /i/b.jpg?PRESET=MEDIUM went through both functions and the transformed
\* object is stored at i/b.jpg/preset=medium
C13_Witness ==
    /\ viewer.uri = <<"/","i","/","b",".","j","p","g">>
    /\ viewer.querystring = QueryOf(s_PRESET, s_MEDIUM)
    /\ Len(returned) = 1
    /\ DOMAIN transformedStore =
           {<<"i","/","b",".","j","p","g","/">> \o s_preset_eq \o s_medium}
    /\ \E i \in Invocations :
           inv[i].pc = "returned" /\ inv[i].response.statusCode = 200

----------------------------------------------------------------------------
(* Concurrent invocations for one rewritten path (Spec) *)

Finished(i) == inv[i].pc \in {"returned", "rejected"}

\* the key and the object one invocation running alone writes for the event
SoloKey ==
    SplitPath(event.path).originalImagePath \o <<"/">>
        \o SplitPath(event.path).operationsPrefix

SoloObject ==
    LET preset == ResolvePreset(impl,
                      Get(ParseOperations(SplitPath(event.path).operationsPrefix),
                          s_preset))
    IN  [Body |-> Encode(originalStore[SplitPath(event.path).originalImagePath].Body,
                         preset.resizingOptions, preset.format, preset.quality),
         ContentType |-> ContentTypeOfFormat(preset.format),
         Metadata |-> TRANSFORMED_IMAGE_CACHE_TTL]

\* C14: in every interleaving of the invocations for one rewritten path, the
\* response of an invocation is decided by its own fetch alone (two
\* invocations whose fetches ended alike return the same response, however
\* far the other has got), the bucket of transformed images holds nothing
\* but the object a single invocation writes, at the single key
\* originalPath/descriptor, and once all invocations have finished it holds
\* that object exactly when some write succeeded.
C14_ConcurrentInvocationsConverge ==
    /\ \A i, j \in Invocations :
           (inv[i].pc = "returned" /\ inv[j].pc = "returned"
                /\ (FetchFailed(i) <=> FetchFailed(j)))
               => inv[i].response = inv[j].response
    /\ DOMAIN transformedStore \subseteq {SoloKey}
    /\ \A k \in DOMAIN transformedStore : transformedStore[k] = SoloObject
    /\ (\A i \in Invocations : Finished(i))
           => (SoloKey \in DOMAIN transformedStore
                   <=> \E i \in Invocations : PutSucceeded(i))

\* two invocations for the same path have both written and returned, and
\* the bucket holds the single object at the single key
C14_Witness ==
    /\ \A i \in Invocations : Finished(i)
    /\ \E i, j \in Invocations :
           i # j /\ PutSucceeded(i) /\ PutSucceeded(j)
    /\ SoloKey \in DOMAIN transformedStore
    /\ transformedStore[SoloKey] = SoloObject

====
